---- MODULE Spec2Model ----
(***************************************************************************)
(* Model of the advisory/conversation state engine OpenAIBasicAdvisor      *)
(* (src/flask_app/openai_advisor.py): the paragraph texts, the advice      *)
(* dictionaries and the per-advice chat threads, and the operations that   *)
(* read and change them.  The completion collaborator is the environment:  *)
(* every invocation either raises or returns a text chosen by the          *)
(* environment.                                                            *)
(***************************************************************************)
EXTENDS Integers, Sequences, FiniteSets, TLC

\* ------------------------------------------------------------------ bounds
\* The engine takes calls while its persisted threads hold fewer than
\* MaxTurns turns beyond their seed turns.
MaxTurns == 3

\* ------------------------------------------------------------ input sets
\* Paragraph ids: keys of PARAGRAPH_CONTEXTS.
Ids == {"q1", "q2"}
\* Paragraph texts, as the word sequences str.split() yields.
Texts == {<<"w1", "w2">>, <<"w1", "w3">>}
\* self.initial_context before add_initial_context was ever called.
None == "None"
\* Values handed to add_initial_context.
Contexts == {"", "ctx"}
\* Advice strings and extracts the collaborator's JSON documents use.
AdviceStrings == {"a1", "a2"}
\* The user's chat messages.
Replies == {"u1"}

\* --------------------------------------------------- text of a response
\* A response text is a sequence of characters.  A JSON document the model
\* does not spell out is one opaque character naming it (a key of JsonDoc).
Whitespace == {" ", "\n"}
\* The backtick character.
Backtick == "bq"

RECURSIVE LStrip(_)
LStrip(s) ==
    IF s # <<>> /\ Head(s) \in Whitespace THEN LStrip(Tail(s)) ELSE s

RECURSIVE RStrip(_)
RStrip(s) ==
    IF s # <<>> /\ s[Len(s)] \in Whitespace
    THEN RStrip(SubSeq(s, 1, Len(s) - 1))
    ELSE s

\* str.strip()
Strip(s) == RStrip(LStrip(s))

\* TRUE iff pat occurs in s at position i (1-based).
MatchAt(s, i, pat) ==
    /\ i + Len(pat) - 1 <= Len(s)
    /\ \A k \in 1..Len(pat) : s[i + k - 1] = pat[k]

\* Number of consecutive "\n" in s from position i on.
RECURSIVE NewlineRun(_, _)
NewlineRun(s, i) ==
    IF i <= Len(s) /\ s[i] = "\n" THEN 1 + NewlineRun(s, i + 1) ELSE 0

\* re.sub(r'json(\n)*', '', s): leftmost non-overlapping matches, each "json"
\* with every newline that follows it.
RECURSIVE SubJson(_, _)
SubJson(s, i) ==
    IF i > Len(s) THEN <<>>
    ELSE IF MatchAt(s, i, <<"j", "s", "o", "n">>)
         THEN SubJson(s, i + 4 + NewlineRun(s, i + 4))
         ELSE <<s[i]>> \o SubJson(s, i + 1)

\* re.sub of the three-backtick code fence by the empty string
RECURSIVE SubFence(_, _)
SubFence(s, i) ==
    IF i > Len(s) THEN <<>>
    ELSE IF MatchAt(s, i, <<Backtick, Backtick, Backtick>>)
         THEN SubFence(s, i + 3)
         ELSE <<s[i]>> \o SubFence(s, i + 1)

clean_outputs(response_text) ==
    SubFence(SubJson(Strip(response_text), 1), 1)

\* ------------------------------------------------------- JSON documents
\* A parsed JSON value is [t, items]: a list of objects, a mapping (items
\* are its key/value entries in document order) or a number.
Item(e, a) == [extract |-> e, advice |-> a]
JList(items) == [t |-> "list", items |-> items]
JDict(entries) == [t |-> "dict", items |-> entries]
JNum == [t |-> "num", items |-> <<>>]

ListDup == <<Item("e1", "a1"), Item("e2", "a1")>>
ListTwo == <<Item("e2", "a2"), Item("e1", "a1")>>
ListOne == <<Item("e1", "a1")>>
ListMalformed == <<Item("e2", "a2"), [extract |-> "e1"]>>

\* The documents the collaborator can answer with, by the character that
\* names them.
JsonDoc ==
    [d \in {"D_dup", "D_two", "D_wrapped", "D_twokeys", "D_num", "D_malformed"} |->
        CASE d = "D_dup" -> JList(ListDup)
          [] d = "D_two" -> JList(ListTwo)
          [] d = "D_wrapped" -> JDict(<<[key |-> "advice_list", value |-> ListOne]>>)
          [] d = "D_twokeys" -> JDict(<<[key |-> "k1", value |-> ListOne],
                                        [key |-> "k2", value |-> ListTwo]>>)
          [] d = "D_num" -> JNum
          [] d = "D_malformed" -> JList(ListMalformed)]

\* json.loads(text): surrounding whitespace is allowed, anything else than
\* exactly one document raises JSONDecodeError.
json_loads(text) ==
    LET body == Strip(text)
    IN  IF Len(body) = 1 /\ body[1] \in DOMAIN JsonDoc
        THEN [ok |-> TRUE, value |-> JsonDoc[body[1]]]
        ELSE [ok |-> FALSE, value |-> JNum]

\* ------------------------------------------------------------- difflib
\* Positions are Python's: 0-based, ranges half-open; a[i] is At(a, i).
At(a, i) == a[i + 1]

\* Length of the common run of a and b that ends at (i, j) and stays inside
\* the window that starts at (alo, blo): newj2len[j] of find_longest_match.
RECURSIVE RunEnding(_, _, _, _, _, _)
RunEnding(a, b, i, j, alo, blo) ==
    IF i < alo \/ j < blo THEN 0
    ELSE IF At(a, i) # At(b, j) THEN 0
    ELSE 1 + RunEnding(a, b, i - 1, j - 1, alo, blo)

SetMax(S) == CHOOSE x \in S : \A y \in S : y <= x
SetMin(S) == CHOOSE x \in S : \A y \in S : x <= y

\* SequenceMatcher.find_longest_match without junk (isjunk is None, and the
\* autojunk heuristic needs 200 elements): the first block, scanning i then
\* j upward, whose run is longer than every earlier one.
find_longest_match(a, b, alo, ahi, blo, bhi) ==
    LET ends == {<<i, j>> \in (alo..(ahi - 1)) \X (blo..(bhi - 1)) :
                    RunEnding(a, b, i, j, alo, blo) > 0}
    IN  IF ends = {} THEN <<alo, blo, 0>>
        ELSE LET k  == SetMax({RunEnding(a, b, e[1], e[2], alo, blo) : e \in ends})
                 best == {e \in ends : RunEnding(a, b, e[1], e[2], alo, blo) = k}
                 i  == SetMin({e[1] : e \in best})
                 j  == SetMin({e[2] : e \in {x \in best : x[1] = i}})
             IN  <<i - k + 1, j - k + 1, k>>

\* The blocks get_matching_blocks collects, already in sorted order: the
\* longest match of the window, the blocks to its left before it and the
\* blocks to its right after it.
RECURSIVE MatchingBlocksIn(_, _, _, _, _, _)
MatchingBlocksIn(a, b, alo, ahi, blo, bhi) ==
    LET x == find_longest_match(a, b, alo, ahi, blo, bhi)
        i == x[1]
        j == x[2]
        k == x[3]
    IN  IF k = 0 THEN <<>>
        ELSE (IF alo < i /\ blo < j
              THEN MatchingBlocksIn(a, b, alo, i, blo, j) ELSE <<>>)
             \o <<x>>
             \o (IF i + k < ahi /\ j + k < bhi
                 THEN MatchingBlocksIn(a, b, i + k, ahi, j + k, bhi) ELSE <<>>)

\* The loop of get_matching_blocks that merges adjacent blocks; cur is
\* (i1, j1, k1).
RECURSIVE CollapseAdjacent(_, _)
CollapseAdjacent(blocks, cur) ==
    IF blocks = <<>>
    THEN (IF cur[3] > 0 THEN <<cur>> ELSE <<>>)
    ELSE LET nxt == Head(blocks)
         IN  IF cur[1] + cur[3] = nxt[1] /\ cur[2] + cur[3] = nxt[2]
             THEN CollapseAdjacent(Tail(blocks), <<cur[1], cur[2], cur[3] + nxt[3]>>)
             ELSE (IF cur[3] > 0 THEN <<cur>> ELSE <<>>)
                  \o CollapseAdjacent(Tail(blocks), nxt)

get_matching_blocks(a, b) ==
    CollapseAdjacent(MatchingBlocksIn(a, b, 0, Len(a), 0, Len(b)), <<0, 0, 0>>)
        \o <<<<Len(a), Len(b), 0>>>>

\* SequenceMatcher.get_opcodes: (i, j) is where the previous block ended.
RECURSIVE OpcodesFrom(_, _, _)
OpcodesFrom(blocks, i, j) ==
    IF blocks = <<>> THEN <<>>
    ELSE LET ai == Head(blocks)[1]
             bj == Head(blocks)[2]
             size == Head(blocks)[3]
             tag == IF i < ai /\ j < bj THEN "replace"
                    ELSE IF i < ai THEN "delete"
                    ELSE IF j < bj THEN "insert"
                    ELSE ""
         IN  (IF tag # ""
              THEN <<[tag |-> tag, i1 |-> i, i2 |-> ai, j1 |-> j, j2 |-> bj]>>
              ELSE <<>>)
             \o (IF size > 0
                 THEN <<[tag |-> "equal", i1 |-> ai, i2 |-> ai + size,
                         j1 |-> bj, j2 |-> bj + size]>>
                 ELSE <<>>)
             \o OpcodesFrom(Tail(blocks), ai + size, bj + size)

\* Faulty variant of get_opcodes: no matching block is looked for, the whole
\* of a is replaced by the whole of b.
GetOpcodesAllReplaced(a, b) ==
    IF a = <<>> /\ b = <<>> THEN <<>>
    ELSE <<[tag |-> IF a = <<>> THEN "insert" ELSE IF b = <<>> THEN "delete"
                    ELSE "replace",
            i1 |-> 0, i2 |-> Len(a), j1 |-> 0, j2 |-> Len(b)]>>

get_opcodes(a, b) == OpcodesFrom(get_matching_blocks(a, b), 0, 0)

\* words[i1:i2]
Slice(words, i1, i2) == SubSeq(words, i1 + 1, i2)

\* One entry of markdown_diff's result list: a word as it is (mark ""), or a
\* span of words joined by spaces and wrapped in "~~" or "**".
Piece(mark, words) == [mark |-> mark, words |-> words]

\* Faulty variant of RenderOpcodes: a replace shows the new words only.
RECURSIVE RenderOpcodesDropsReplaced(_, _, _)
RenderOpcodesDropsReplaced(ops, old_words, new_words) ==
    IF ops = <<>> THEN <<>>
    ELSE LET op == Head(ops)
             del == Piece("~~", Slice(old_words, op.i1, op.i2))
             ins == Piece("**", Slice(new_words, op.j1, op.j2))
             here ==
                CASE op.tag = "equal" ->
                        [n \in 1..(op.i2 - op.i1) |->
                            Piece("", <<At(old_words, op.i1 + n - 1)>>)]
                  [] op.tag = "delete" -> <<del>>
                  [] op.tag = "insert" -> <<ins>>
                  [] op.tag = "replace" -> <<ins>>
         IN  here \o RenderOpcodesDropsReplaced(Tail(ops), old_words, new_words)

RECURSIVE RenderOpcodes(_, _, _)
RenderOpcodes(ops, old_words, new_words) ==
    IF ops = <<>> THEN <<>>
    ELSE LET op == Head(ops)
             del == Piece("~~", Slice(old_words, op.i1, op.i2))
             ins == Piece("**", Slice(new_words, op.j1, op.j2))
             here ==
                CASE op.tag = "equal" ->
                        [n \in 1..(op.i2 - op.i1) |->
                            Piece("", <<At(old_words, op.i1 + n - 1)>>)]
                  [] op.tag = "delete" -> <<del>>
                  [] op.tag = "insert" -> <<ins>>
                  [] op.tag = "replace" -> <<del, ins>>
         IN  here \o RenderOpcodes(Tail(ops), old_words, new_words)

\* markdown_diff on the two word sequences: the pieces that " ".join makes
\* into the returned text.
markdown_diff(original, updated) ==
    RenderOpcodes(get_opcodes(original, updated), original, updated)

\* " ".join(words): the words with one space between neighbours.  A text is
\* a sequence of words, spaces and the markers "~~" and "**".
RECURSIVE JoinWords(_)
JoinWords(words) ==
    IF words = <<>> THEN <<>>
    ELSE IF Len(words) = 1 THEN words
    ELSE <<Head(words), " ">> \o JoinWords(Tail(words))

\* The string of one entry of the result list.
PieceText(piece) ==
    IF piece.mark = "" THEN piece.words
    ELSE <<piece.mark>> \o JoinWords(piece.words) \o <<piece.mark>>

\* " ".join(result)
RECURSIVE JoinPieces(_)
JoinPieces(pieces) ==
    IF pieces = <<>> THEN <<>>
    ELSE IF Len(pieces) = 1 THEN PieceText(Head(pieces))
    ELSE PieceText(Head(pieces)) \o <<" ">> \o JoinPieces(Tail(pieces))

\* --------------------------------------------------------- engine state
VARIABLES
    initial_context,  \* self.initial_context: None or the project context
    paragraphs,       \* self.paragraphs: id -> text, for the ids stored
    advices,          \* self.advices: id -> (advice -> extract); a defaultdict
    chat_history,     \* self.chat_history: id -> (advice -> thread); a defaultdict
    last,             \* the call whose outcome the caller has not yet taken
    chat_id,          \* app.py's global chat_id: {} or the thread selected last
    page              \* per client, what its page holds: the feedback it
                      \* selected last and the answers it got feedback for

vars == <<initial_context, paragraphs, advices, chat_history, last, chat_id, page>>

\* The empty dict.
EmptyDict == [k \in {} |-> <<>>]
\* d[k] = v on a dict.
DictSet(d, k, v) == [x \in DOMAIN d \cup {k} |-> IF x = k THEN v ELSE d[x]]

\* The engine's fields as one value, handed to the operations below.
Engine ==
    [initial_context |-> initial_context, paragraphs |-> paragraphs,
     advices |-> advices, chat_history |-> chat_history]

\* ---------------------------------------------------- the collaborator
\* What one invocation of client.chat.completions.create does: it raises,
\* or it returns a message whose content is text.
Raises == [fail |-> TRUE, text |-> <<>>]
Returns(text) == [fail |-> FALSE, text |-> text]

\* Response texts to a request for JSON: no JSON at all, a bare document,
\* and a document inside a fenced block with a language tag.
NotJson == <<"x">>
Fenced(d) ==
    <<Backtick, Backtick, Backtick, "j", "s", "o", "n", "\n", d, "\n",
      Backtick, Backtick, Backtick>>
AllStructuredTexts ==
    {NotJson, Fenced("D_two")} \cup {<<d>> : d \in DOMAIN JsonDoc \ {"D_two"}}
\* Response texts to a request for free text.
PlainTexts == {<<"x">>, <<" ", "y", "\n">>}

Msg(role, content) == [role |-> role, content |-> content]

\* _openai_call(messages) answered by response: the stripped content.
openai_call(response) == Strip(response.text)

\* What a handler hands back: the engine after it, how it ended (kind "ok"
\* or the exception), the value returned, the number of collaborator
\* invocations and the message list of each.
Outcome(st, kind, ret, calls, sent) ==
    [st |-> st, kind |-> kind, ret |-> ret, calls |-> calls, sent |-> sent]
NoRet == [t |-> "none", v |-> <<>>]
Sent(messages, calls) == [n \in 1..calls |-> messages]

\* retries = 3
Retries == 3

\* Faulty variant of ParseLoop: when the retries are used up it hands back an
\* empty list instead of raising.
RECURSIVE ParseLoopSilent(_, _, _)
ParseLoopSilent(run, n, retries) ==
    IF retries = 0
    THEN [kind |-> "ok", value |-> JList(<<>>), calls |-> n]
    ELSE LET parsed == json_loads(clean_outputs(openai_call(run[n])))
         IN  IF parsed.ok
             THEN [kind |-> "ok", value |-> parsed.value, calls |-> n]
             ELSE IF run[n + 1].fail
                  THEN [kind |-> "InvocationError", value |-> JNum, calls |-> n + 1]
                  ELSE ParseLoopSilent(run, n + 1, retries - 1)

\* Faulty variant of ParseLoop: an invocation that raises during a retry is
\* caught, and the call goes on with an empty list.
RECURSIVE ParseLoopSwallowsFailure(_, _, _)
ParseLoopSwallowsFailure(run, n, retries) ==
    IF retries = 0
    THEN [kind |-> "DecodeError", value |-> JNum, calls |-> n]
    ELSE LET parsed == json_loads(clean_outputs(openai_call(run[n])))
         IN  IF parsed.ok
             THEN [kind |-> "ok", value |-> parsed.value, calls |-> n]
             ELSE IF run[n + 1].fail
                  THEN [kind |-> "ok", value |-> JList(<<>>), calls |-> n + 1]
                  ELSE ParseLoopSwallowsFailure(run, n + 1, retries - 1)

\* The loop "while retries > 0: try json.loads ... except: retries -= 1;
\* call again ... else: raise ValueError".  Response n of run is in hand,
\* already cleaned by clean_outputs.
RECURSIVE ParseLoop(_, _, _)
ParseLoop(run, n, retries) ==
    IF retries = 0
    THEN [kind |-> "DecodeError", value |-> JNum, calls |-> n]
    ELSE LET parsed == json_loads(clean_outputs(openai_call(run[n])))
         IN  IF parsed.ok
             THEN [kind |-> "ok", value |-> parsed.value, calls |-> n]
             ELSE IF run[n + 1].fail
                  THEN [kind |-> "InvocationError", value |-> JNum, calls |-> n + 1]
                  ELSE ParseLoop(run, n + 1, retries - 1)

\* The first call followed by the loop; run lists the collaborator's answers
\* in the order of the invocations.
StructuredCall(run) ==
    IF run[1].fail
    THEN [kind |-> "InvocationError", value |-> JNum, calls |-> 1]
    ELSE ParseLoop(run, 1, Retries)

\* ------------------------------------------------------------- handlers
\* Faulty variant of Truthy: only None counts as unset, the empty string
\* passes.
TruthyNotNone(context) == context # None

\* bool(self.initial_context)
Truthy(context) == context # None /\ context # ""

\* Faulty variant of add_initial_context: a context that is already set is
\* kept.
AddInitialContextOnce(st, context) ==
    Outcome(IF st.initial_context = None
            THEN [st EXCEPT !.initial_context = context] ELSE st,
            "ok", NoRet, 0, <<>>)

\* add_initial_context(context)
add_initial_context(st, context) ==
    Outcome([st EXCEPT !.initial_context = context], "ok", NoRet, 0, <<>>)

\* float(text) for texts over whitespace, sign, digit and point characters and
\* letters that spell no number: surrounding whitespace is dropped, then an
\* optional sign, digits with at most one point and at least one digit.  The
\* value is the decimal mant / 10^scale without trailing zeros, so that
\* texts naming the same number give the same value.
DigitChars == <<"0", "1", "2", "3", "4", "5", "6", "7", "8", "9">>
Digits == {DigitChars[i] : i \in 1..Len(DigitChars)}
DigitValue(c) == CHOOSE v \in 0..9 : c = DigitChars[v + 1]
RECURSIVE Mantissa(_, _)
Mantissa(chars, acc) ==
    IF chars = <<>> THEN acc
    ELSE IF Head(chars) = "." THEN Mantissa(Tail(chars), acc)
    ELSE Mantissa(Tail(chars), 10 * acc + DigitValue(Head(chars)))
RECURSIVE Normal(_, _, _)
Normal(neg, mant, scale) ==
    IF scale > 0 /\ mant % 10 = 0 THEN Normal(neg, mant \div 10, scale - 1)
    ELSE [neg |-> neg /\ mant # 0, mant |-> mant, scale |-> scale]
float_parse(text) ==
    LET s == Strip(text)
        signed == s # <<>> /\ s[1] \in {"+", "-"}
        body == IF signed THEN Tail(s) ELSE s
        points == {i \in 1..Len(body) : body[i] = "."}
        ok == /\ \A i \in 1..Len(body) : body[i] \in Digits \cup {"."}
              /\ Cardinality(points) <= 1
              /\ Len(body) - Cardinality(points) >= 1
        scale == IF points = {} THEN 0 ELSE Len(body) - (CHOOSE i \in points : TRUE)
    IN  IF ok
        THEN [ok |-> TRUE,
              value |-> Normal(signed /\ s[1] = "-", Mantissa(body, 0), scale)]
        ELSE [ok |-> FALSE, value |-> Normal(FALSE, 0, 0)]

\* retries = 3 in score_paragraph
ScoreRetries == 3

\* The loop "while retries > 0: try: score = float(response_text); break;
\* except ValueError: retries -= 1; call again" followed by "return score":
\* when the retries are used up score was never assigned and the return
\* statement raises UnboundLocalError.  Response n of run is in hand.
RECURSIVE ScoreLoop(_, _, _)
ScoreLoop(run, n, retries) ==
    IF retries = 0
    THEN [kind |-> "UnboundLocalError", value |-> Normal(FALSE, 0, 0), calls |-> n]
    ELSE LET parsed == float_parse(openai_call(run[n]))
         IN  IF parsed.ok
             THEN [kind |-> "ok", value |-> parsed.value, calls |-> n]
             ELSE IF run[n + 1].fail
                  THEN [kind |-> "InvocationError", value |-> parsed.value,
                        calls |-> n + 1]
                  ELSE ScoreLoop(run, n + 1, retries - 1)

ScoreMessages(st, paragraph_id, paragraph) ==
    <<Msg("system", <<"score", paragraph_id, st.initial_context>>),
      Msg("user", paragraph)>>

\* score_paragraph(paragraph_id, paragraph): the prompt is built with
\* "+ self.initial_context", a TypeError while that is None; no field of the
\* engine is read otherwise and none is written.
score_paragraph(st, paragraph_id, paragraph, run) ==
    IF st.initial_context = None
    THEN Outcome(st, "TypeError", NoRet, 0, <<>>)
    ELSE LET messages == ScoreMessages(st, paragraph_id, paragraph)
             got == IF run[1].fail
                    THEN [kind |-> "InvocationError", value |-> Normal(FALSE, 0, 0),
                          calls |-> 1]
                    ELSE ScoreLoop(run, 1, ScoreRetries)
             sent == Sent(messages, got.calls)
         IN  IF got.kind # "ok" THEN Outcome(st, got.kind, NoRet, got.calls, sent)
             ELSE Outcome(st, "ok", [t |-> "float", v |-> got.value], got.calls, sent)

\* Faulty variant of StoreAdvice: an advice string that is already a key
\* keeps its extract.
RECURSIVE StoreAdviceKeepsFirst(_, _)
StoreAdviceKeepsFirst(dict, items) ==
    IF items = <<>> THEN [dict |-> dict, ok |-> TRUE]
    ELSE LET adv == Head(items)
         IN  IF {"advice", "extract"} \subseteq DOMAIN adv
             THEN StoreAdviceKeepsFirst(
                      IF adv.advice \in DOMAIN dict THEN dict
                      ELSE DictSet(dict, adv.advice, adv.extract), Tail(items))
             ELSE [dict |-> dict, ok |-> FALSE]

\* Faulty variant of StoreAdvice: the loop ends after its first item.
StoreAdviceFirstOnly(dict, items) ==
    IF items = <<>> THEN [dict |-> dict, ok |-> TRUE]
    ELSE LET adv == Head(items)
         IN  IF {"advice", "extract"} \subseteq DOMAIN adv
             THEN [dict |-> DictSet(dict, adv.advice, adv.extract), ok |-> TRUE]
             ELSE [dict |-> dict, ok |-> FALSE]

\* The loop "for adv in advice: self.advices[id][adv['advice']] =
\* adv['extract']" over a list: the dict after it and whether an item lacked
\* a key (the loop stops there with KeyError, the earlier items stored).
RECURSIVE StoreAdvice(_, _)
StoreAdvice(dict, items) ==
    IF items = <<>> THEN [dict |-> dict, ok |-> TRUE]
    ELSE LET adv == Head(items)
         IN  IF {"advice", "extract"} \subseteq DOMAIN adv
             THEN StoreAdvice(DictSet(dict, adv.advice, adv.extract), Tail(items))
             ELSE [dict |-> dict, ok |-> FALSE]

\* "if isinstance(advice, dict): advice = advice.popitem()[1]": popitem
\* returns the entry inserted last.
Unwrap(value) ==
    IF value.t = "dict"
    THEN JList(value.items[Len(value.items)].value)
    ELSE value

SeedMessages(st, paragraph_id, paragraph) ==
    <<Msg("system", <<"seed feedback", paragraph_id, st.initial_context>>),
      Msg("user", paragraph)>>

\* Faulty variant of add_paragraph: the advice dict of the paragraph is
\* replaced by the items of the answer instead of being merged with them.
AddReplacesAdvice(st, paragraph_id, paragraph, run) ==
    IF ~Truthy(st.initial_context)
    THEN Outcome(st, "AssertionError", NoRet, 0, <<>>)
    ELSE LET messages == SeedMessages(st, paragraph_id, paragraph)
             got == StructuredCall(run)
             sent == Sent(messages, got.calls)
             advice == Unwrap(got.value)
             stored == [st EXCEPT !.paragraphs = DictSet(@, paragraph_id, paragraph)]
             filled == StoreAdvice(EmptyDict, advice.items)
             after == [stored EXCEPT !.advices[paragraph_id] = filled.dict]
         IN  IF got.kind # "ok" THEN Outcome(st, got.kind, NoRet, got.calls, sent)
             ELSE IF advice.t # "list"
                  THEN Outcome(stored, "TypeError", NoRet, got.calls, sent)
             ELSE IF ~filled.ok
                  THEN Outcome(after, "KeyError", NoRet, got.calls, sent)
             ELSE Outcome(after, "ok", [t |-> "json", v |-> advice], got.calls, sent)

add_paragraph(st, paragraph_id, paragraph, run) ==
    IF ~Truthy(st.initial_context)
    THEN Outcome(st, "AssertionError", NoRet, 0, <<>>)
    ELSE LET messages == SeedMessages(st, paragraph_id, paragraph)
             got == StructuredCall(run)
             sent == Sent(messages, got.calls)
             advice == Unwrap(got.value)
             stored == [st EXCEPT !.paragraphs = DictSet(@, paragraph_id, paragraph)]
             filled == StoreAdvice(st.advices[paragraph_id], advice.items)
             after == [stored EXCEPT !.advices[paragraph_id] = filled.dict]
         IN  IF got.kind # "ok" THEN Outcome(st, got.kind, NoRet, got.calls, sent)
             ELSE IF advice.t # "list"
                  THEN Outcome(stored, "TypeError", NoRet, got.calls, sent)
             ELSE IF ~filled.ok
                  THEN Outcome(after, "KeyError", NoRet, got.calls, sent)
             ELSE Outcome(after, "ok", [t |-> "json", v |-> advice], got.calls, sent)

DeltaMessages(st, paragraph_id, paragraph) ==
    <<Msg("system", <<"delta feedback", paragraph_id,
                      st.advices[paragraph_id], st.initial_context>>),
      Msg("user", markdown_diff(st.paragraphs[paragraph_id], paragraph))>>

\* Faulty variant of update_paragraph: the advice dict of the paragraph is
\* replaced by the items of the answer, advice the answer leaves out is
\* pruned.
UpdatePrunesAdvice(st, paragraph_id, paragraph, run) ==
    IF paragraph_id \notin DOMAIN st.paragraphs
    THEN add_paragraph(st, paragraph_id, paragraph, run)
    ELSE IF st.initial_context = None
    THEN Outcome(st, "TypeError", NoRet, 0, <<>>)
    ELSE LET messages == DeltaMessages(st, paragraph_id, paragraph)
             got == StructuredCall(run)
             sent == Sent(messages, got.calls)
             stored == [st EXCEPT !.paragraphs = DictSet(@, paragraph_id, paragraph),
                                  !.advices[paragraph_id] =
                                      StoreAdvice(EmptyDict, Unwrap(got.value).items).dict]
         IN  IF got.kind # "ok" THEN Outcome(st, got.kind, NoRet, got.calls, sent)
             ELSE Outcome(stored, "ok", [t |-> "json", v |-> got.value], got.calls, sent)

\* Faulty variant of update_paragraph: the threads of the paragraph are
\* dropped when its text is replaced.
UpdateResetsThreads(st, paragraph_id, paragraph, run) ==
    IF paragraph_id \notin DOMAIN st.paragraphs
    THEN add_paragraph(st, paragraph_id, paragraph, run)
    ELSE IF st.initial_context = None
    THEN Outcome(st, "TypeError", NoRet, 0, <<>>)
    ELSE LET messages == DeltaMessages(st, paragraph_id, paragraph)
             got == StructuredCall(run)
             sent == Sent(messages, got.calls)
             stored == [st EXCEPT !.paragraphs = DictSet(@, paragraph_id, paragraph),
                                  !.chat_history[paragraph_id] = EmptyDict]
         IN  IF got.kind # "ok" THEN Outcome(st, got.kind, NoRet, got.calls, sent)
             ELSE Outcome(stored, "ok", [t |-> "json", v |-> got.value], got.calls, sent)

\* Faulty variant of update_paragraph: an id that is not stored is not handed
\* to add_paragraph, it goes through the update path with nothing to diff.
UpdateNoRoute(st, paragraph_id, paragraph, run) ==
    LET got == StructuredCall(run)
        messages == <<Msg("system", <<"delta feedback", paragraph_id,
                                      st.advices[paragraph_id], st.initial_context>>),
                      Msg("user", <<>>)>>
        sent == Sent(messages, got.calls)
        stored == [st EXCEPT !.paragraphs = DictSet(@, paragraph_id, paragraph)]
    IN  IF got.kind # "ok" THEN Outcome(st, got.kind, NoRet, got.calls, sent)
        ELSE Outcome(stored, "ok", [t |-> "json", v |-> got.value], got.calls, sent)

\* Faulty variant of update_paragraph: every update is handled as a new
\* paragraph, so the returned items are merged into the advice dict.
UpdateAsAdd(st, paragraph_id, paragraph, run) ==
    add_paragraph(st, paragraph_id, paragraph, run)

update_paragraph(st, paragraph_id, paragraph, run) ==
    IF paragraph_id \notin DOMAIN st.paragraphs
    THEN add_paragraph(st, paragraph_id, paragraph, run)
    ELSE IF st.initial_context = None
    THEN Outcome(st, "TypeError", NoRet, 0, <<>>)
    ELSE LET messages == DeltaMessages(st, paragraph_id, paragraph)
             got == StructuredCall(run)
             sent == Sent(messages, got.calls)
             stored == [st EXCEPT !.paragraphs = DictSet(@, paragraph_id, paragraph)]
         IN  IF got.kind # "ok" THEN Outcome(st, got.kind, NoRet, got.calls, sent)
             ELSE Outcome(stored, "ok", [t |-> "json", v |-> got.value], got.calls, sent)

\* The three turns a thread starts from.
SeedThread(st, paragraph_id, paragraph_advice) ==
    <<Msg("system", <<"reply persona">>),
      Msg("user", st.paragraphs[paragraph_id]),
      Msg("assistant", <<"Considering the following extract of your paragraph: ",
                         st.advices[paragraph_id][paragraph_advice], "\n",
                         paragraph_advice>>)>>

\* Faulty variant of Display: the third turn keeps the content it has in the
\* thread, extract included.
DisplayKeepsSeedContent(history, paragraph_advice) ==
    LET renamed == [i \in 1..Len(history) |->
                       [history[i] EXCEPT !.role =
                           IF @ = "assistant" THEN "Assistant"
                           ELSE IF @ = "user" THEN "You" ELSE @]]
    IN  SubSeq(renamed, 3, Len(renamed))

\* The copy handed to the caller: deepcopy, the third turn's content set to
\* the advice string, the roles renamed, the first two turns dropped.
Display(history, paragraph_advice) ==
    LET to_return == [history EXCEPT ![3].content = <<paragraph_advice>>]
        renamed == [i \in 1..Len(to_return) |->
                       [to_return[i] EXCEPT !.role =
                           IF @ = "assistant" THEN "Assistant"
                           ELSE IF @ = "user" THEN "You" ELSE @]]
    IN  SubSeq(renamed, 3, Len(renamed))

\* Faulty variant of SaveThread: the threads of the paragraph are replaced
\* by a dict that holds this thread only.
SaveThreadReplacesDict(st, paragraph_id, paragraph_advice, history) ==
    [st EXCEPT !.chat_history[paragraph_id] =
                   DictSet(EmptyDict, paragraph_advice, history)]

\* chat_history[paragraph_id][paragraph_advice] = history
SaveThread(st, paragraph_id, paragraph_advice, history) ==
    [st EXCEPT !.chat_history[paragraph_id] = DictSet(@, paragraph_advice, history)]

\* Faulty variant of ViewOutcome: no deepcopy, so the display edits land in
\* the persisted thread.
ViewOutcomeNoCopy(st, paragraph_id, paragraph_advice, base_history) ==
    LET edited == [base_history EXCEPT ![3].content = <<paragraph_advice>>]
    IN  Outcome(IF paragraph_advice \in DOMAIN st.chat_history[paragraph_id]
                THEN SaveThread(st, paragraph_id, paragraph_advice, edited)
                ELSE st,
                "ok", [t |-> "thread", v |-> Display(base_history, paragraph_advice)],
                0, <<>>)

\* The branch "if reply is None": the display copy of the thread, nothing
\* asked, nothing stored.
ViewOutcome(st, paragraph_id, paragraph_advice, base_history) ==
    Outcome(st, "ok", [t |-> "thread", v |-> Display(base_history, paragraph_advice)],
            0, <<>>)

\* Faulty variant of ReplyOutcome: the user's turn is sent to the
\* collaborator but not kept in the thread that is stored.
ReplyOutcomeDropsUserTurn(st, paragraph_id, paragraph_advice, base_history, persisted, reply, response) ==
    LET asked == Append(base_history, Msg("user", <<reply>>))
        answered == Append(base_history, Msg("assistant", openai_call(response)))
    IN  IF response.fail
        THEN Outcome(st, "InvocationError", NoRet, 1, <<asked>>)
        ELSE Outcome(SaveThread(st, paragraph_id, paragraph_advice, answered), "ok",
                     [t |-> "thread", v |-> Display(answered, paragraph_advice)],
                     1, <<asked>>)

\* Faulty variant of ReplyOutcome: no deepcopy, so the thread that is stored
\* carries the display edits, the third turn cut down to the advice string
\* and the roles renamed.
ReplyOutcomeNoCopy(st, paragraph_id, paragraph_advice, base_history, persisted, reply, response) ==
    LET asked == Append(base_history, Msg("user", <<reply>>))
        dangling == IF persisted
                    THEN SaveThread(st, paragraph_id, paragraph_advice, asked)
                    ELSE st
        answered == Append(asked, Msg("assistant", openai_call(response)))
        edited == SubSeq(answered, 1, 2) \o Display(answered, paragraph_advice)
    IN  IF response.fail
        THEN Outcome(dangling, "InvocationError", NoRet, 1, <<asked>>)
        ELSE Outcome(SaveThread(st, paragraph_id, paragraph_advice, edited), "ok",
                     [t |-> "thread", v |-> Display(answered, paragraph_advice)],
                     1, <<asked>>)

\* The rest of paragraph_reply: the user's turn is appended to base_history
\* (the persisted list itself when the thread is persisted), the
\* collaborator is asked once over the whole thread, and its answer is
\* appended and the thread stored.
ReplyOutcome(st, paragraph_id, paragraph_advice, base_history, persisted, reply, response) ==
    LET asked == Append(base_history, Msg("user", <<reply>>))
        dangling == IF persisted
                    THEN SaveThread(st, paragraph_id, paragraph_advice, asked)
                    ELSE st
        answered == Append(asked, Msg("assistant", openai_call(response)))
    IN  IF response.fail
        THEN Outcome(dangling, "InvocationError", NoRet, 1, <<asked>>)
        ELSE Outcome(SaveThread(st, paragraph_id, paragraph_advice, answered), "ok",
                     [t |-> "thread", v |-> Display(answered, paragraph_advice)],
                     1, <<asked>>)

\* Faulty variant of paragraph_reply: the advice string is looked up only
\* after the collaborator has been asked.
ReplyAsksBeforeLookup(st, paragraph_id, paragraph_advice, reply, response) ==
    IF paragraph_id \notin DOMAIN st.paragraphs
    THEN Outcome(st, "NotFound", NoRet, 0, <<>>)
    ELSE IF paragraph_advice \notin DOMAIN st.advices[paragraph_id]
    THEN Outcome(st, "KeyError", NoRet, IF reply = None THEN 0 ELSE 1,
                 IF reply = None THEN <<>> ELSE << <<Msg("user", <<reply>>)>> >>)
    ELSE LET persisted == paragraph_advice \in DOMAIN st.chat_history[paragraph_id]
             base_history == IF persisted
                             THEN st.chat_history[paragraph_id][paragraph_advice]
                             ELSE SeedThread(st, paragraph_id, paragraph_advice)
         IN  IF reply = None
             THEN ViewOutcome(st, paragraph_id, paragraph_advice, base_history)
             ELSE ReplyOutcome(st, paragraph_id, paragraph_advice, base_history,
                               persisted, reply, response)

\* paragraph_reply(paragraph_id, paragraph_advice, reply); reply is None or
\* the user's message, response is the collaborator's answer if it is asked.
paragraph_reply(st, paragraph_id, paragraph_advice, reply, response) ==
    IF paragraph_id \notin DOMAIN st.paragraphs
    THEN Outcome(st, "NotFound", NoRet, 0, <<>>)
    ELSE IF paragraph_advice \notin DOMAIN st.advices[paragraph_id]
    THEN Outcome(st, "KeyError", NoRet, 0, <<>>)
    ELSE LET persisted == paragraph_advice \in DOMAIN st.chat_history[paragraph_id]
             base_history == IF persisted
                             THEN st.chat_history[paragraph_id][paragraph_advice]
                             ELSE SeedThread(st, paragraph_id, paragraph_advice)
         IN  IF reply = None
             THEN ViewOutcome(st, paragraph_id, paragraph_advice, base_history)
             ELSE ReplyOutcome(st, paragraph_id, paragraph_advice, base_history,
                               persisted, reply, response)

EnhanceMessages(st, pid) ==
    <<Msg("system", <<"enhance">>), Msg("user", st.paragraphs[pid])>>

\* Faulty variant of EnhanceLoop: each text is put at the front of
\* enhanced_list, so the list comes back in reverse order.
RECURSIVE EnhanceLoopPrepends(_, _, _, _, _)
EnhanceLoopPrepends(st, paragraph_ids, n, run, enhanced_list) ==
    LET calls == Len(enhanced_list)
        sent == [i \in 1..calls |-> EnhanceMessages(st, paragraph_ids[i])]
    IN  IF n > Len(paragraph_ids)
        THEN Outcome(st, "ok", [t |-> "texts", v |-> enhanced_list], calls, sent)
        ELSE IF paragraph_ids[n] \notin DOMAIN st.paragraphs
        THEN Outcome(st, "NotFound", NoRet, calls, sent)
        ELSE IF run[n].fail
        THEN Outcome(st, "InvocationError", NoRet, calls + 1,
                     Append(sent, EnhanceMessages(st, paragraph_ids[n])))
        ELSE EnhanceLoopPrepends(st, paragraph_ids, n + 1, run,
                                 <<openai_call(run[n])>> \o enhanced_list)

\* The loop over paragraph_ids from position n on; run lists the
\* collaborator's answers, enhanced_list holds the texts so far.
RECURSIVE EnhanceLoop(_, _, _, _, _)
EnhanceLoop(st, paragraph_ids, n, run, enhanced_list) ==
    LET calls == Len(enhanced_list)
        sent == [i \in 1..calls |-> EnhanceMessages(st, paragraph_ids[i])]
    IN  IF n > Len(paragraph_ids)
        THEN Outcome(st, "ok", [t |-> "texts", v |-> enhanced_list], calls, sent)
        ELSE IF paragraph_ids[n] \notin DOMAIN st.paragraphs
        THEN Outcome(st, "NotFound", NoRet, calls, sent)
        ELSE IF run[n].fail
        THEN Outcome(st, "InvocationError", NoRet, calls + 1,
                     Append(sent, EnhanceMessages(st, paragraph_ids[n])))
        ELSE EnhanceLoop(st, paragraph_ids, n + 1, run,
                         Append(enhanced_list, openai_call(run[n])))

\* paragraph_ids = None
NoList == <<None>>

\* Faulty variant of enhance_paragraph: a call without paragraph_id and
\* without paragraph_ids is taken as a call with an empty list.
EnhanceNoneIsEmptyList(st, paragraph_id, paragraph_ids, run) ==
    IF paragraph_id # None /\ paragraph_ids # NoList
    THEN Outcome(st, "InvalidArgument", NoRet, 0, <<>>)
    ELSE IF paragraph_id # None
    THEN IF paragraph_id \notin DOMAIN st.paragraphs
         THEN Outcome(st, "NotFound", NoRet, 0, <<>>)
         ELSE IF run[1].fail
         THEN Outcome(st, "InvocationError", NoRet, 1,
                      <<EnhanceMessages(st, paragraph_id)>>)
         ELSE Outcome(st, "ok", [t |-> "text", v |-> openai_call(run[1])], 1,
                      <<EnhanceMessages(st, paragraph_id)>>)
    ELSE IF paragraph_ids # NoList
    THEN EnhanceLoop(st, paragraph_ids, 1, run, <<>>)
    ELSE Outcome(st, "ok", [t |-> "texts", v |-> <<>>], 0, <<>>)

\* Faulty variant of enhance_paragraph: the single-id form asks the
\* collaborator a second time and returns the second answer.
EnhanceAsksTwice(st, paragraph_id, paragraph_ids, run) ==
    IF paragraph_id # None /\ paragraph_ids # NoList
    THEN Outcome(st, "InvalidArgument", NoRet, 0, <<>>)
    ELSE IF paragraph_id # None
    THEN IF paragraph_id \notin DOMAIN st.paragraphs
         THEN Outcome(st, "NotFound", NoRet, 0, <<>>)
         ELSE IF run[1].fail
         THEN Outcome(st, "InvocationError", NoRet, 1,
                      <<EnhanceMessages(st, paragraph_id)>>)
         ELSE Outcome(st, "ok", [t |-> "text", v |-> openai_call(run[1])], 2,
                      <<EnhanceMessages(st, paragraph_id),
                        EnhanceMessages(st, paragraph_id)>>)
    ELSE IF paragraph_ids # NoList
    THEN EnhanceLoop(st, paragraph_ids, 1, run, <<>>)
    ELSE Outcome(st, "InvalidArgument", NoRet, 0, <<>>)

\* enhance_paragraph(paragraph_id, paragraph_ids)
enhance_paragraph(st, paragraph_id, paragraph_ids, run) ==
    IF paragraph_id # None /\ paragraph_ids # NoList
    THEN Outcome(st, "InvalidArgument", NoRet, 0, <<>>)
    ELSE IF paragraph_id # None
    THEN IF paragraph_id \notin DOMAIN st.paragraphs
         THEN Outcome(st, "NotFound", NoRet, 0, <<>>)
         ELSE IF run[1].fail
         THEN Outcome(st, "InvocationError", NoRet, 1,
                      <<EnhanceMessages(st, paragraph_id)>>)
         ELSE Outcome(st, "ok", [t |-> "text", v |-> openai_call(run[1])], 1,
                      <<EnhanceMessages(st, paragraph_id)>>)
    ELSE IF paragraph_ids # NoList
    THEN EnhanceLoop(st, paragraph_ids, 1, run, <<>>)
    ELSE Outcome(st, "InvalidArgument", NoRet, 0, <<>>)

\* ------------------------------------------------- the environment's choices
\* What the collaborator does at one invocation of a structured call: it
\* raises, answers without JSON, with a bare list or with a fenced list.
StructuredResponses ==
    {Raises} \cup {Returns(t) : t \in {NotJson, <<"D_dup">>, Fenced("D_two")}}
PlainResponses == {Raises} \cup {Returns(t) : t \in PlainTexts}

\* A response the parse loop rejects.
Unparseable(r) == ~r.fail /\ ~json_loads(clean_outputs(openai_call(r))).ok

\* The answers the collaborator gives in one structured call, up to the last
\* invocation the handler makes: every answer but the last is rejected by the
\* parse loop, and a run shorter than Retries + 1 ends with an answer that
\* ends the loop.
RunsOver(responses) ==
    {run \in UNION {[1..n -> responses] : n \in 1..(Retries + 1)} :
        /\ \A i \in 1..(Len(run) - 1) : Unparseable(run[i])
        /\ Len(run) < Retries + 1 => ~Unparseable(run[Len(run)])}
StructuredRuns == RunsOver(StructuredResponses)

\* What the collaborator does at one invocation of score_paragraph: it
\* raises, answers with words, or with a number.
ScoreResponses ==
    {Raises} \cup {Returns(t) : t \in {<<"x">>, <<" ", "0", ".", "7", "0", "\n">>, <<"1">>}}
NotNumber(r) == ~r.fail /\ ~float_parse(openai_call(r)).ok
\* The answers in one call of score_paragraph, up to the last invocation it
\* makes, and one run where a later answer differs from the one returned.
ScoreRuns ==
    {run \in UNION {[1..n -> ScoreResponses] : n \in 1..(ScoreRetries + 1)} :
        /\ \A i \in 1..(Len(run) - 1) : NotNumber(run[i])
        /\ Len(run) < ScoreRetries + 1 => ~NotNumber(run[Len(run)])}
    \cup {<<Returns(<<"x">>), Returns(<<" ", "0", ".", "7", "0", "\n">>),
            Returns(<<"1">>)>>}

\* The collaborator's answers to a chat reply.
ReplyResponses == {Raises, Returns(<<" ", "y", "\n">>)}

\* The paragraph_ids lists handed to enhance_paragraph.
IdLists == {<<>>, <<"q1">>, <<"q1", "q2">>, <<"q2", "q1">>}
\* The collaborator's answers to n invocations in a row: it is not asked
\* again once it has raised.
PlainRuns(n) ==
    {run \in [1..n -> PlainResponses] :
        \A i \in 1..(n - 1) : run[i].fail => run[i + 1].fail}
\* The calls of enhance_paragraph: one id, a list of ids, both, neither.
EnhanceCalls ==
    {[id |-> pid, ids |-> NoList, run |-> run] :
        pid \in Ids, run \in PlainRuns(1)}
    \cup UNION {{[id |-> None, ids |-> pids, run |-> run] :
                    run \in PlainRuns(Len(pids))} : pids \in IdLists}
    \cup {[id |-> "q1", ids |-> <<"q1">>, run |-> <<>>],
          [id |-> None, ids |-> NoList, run |-> <<>>]}

\* Turns beyond the three seed turns, over all persisted threads.
RECURSIVE SumExtra(_, _)
SumExtra(chat, keys) ==
    IF keys = {} THEN 0
    ELSE LET k == CHOOSE x \in keys : TRUE
         IN  (Len(chat[k[1]][k[2]]) - 3) + SumExtra(chat, keys \ {k})
ThreadKeys(chat) == {k \in Ids \X AdviceStrings : k[2] \in DOMAIN chat[k[1]]}
ExtraTurns(chat) == SumExtra(chat, ThreadKeys(chat))

\* ---------------------------------------------------------------- actions
\* The clients of the web application and a page that has selected no
\* feedback and got feedback for no answer.
Clients == {"A", "B"}
NoPage == [selected |-> EmptyDict, answers |-> EmptyDict]

\* No call is waiting for its caller.
Idle ==
    [op |-> "idle", args |-> <<>>, pre |-> <<>>, kind |-> "ok", ret |-> NoRet,
     calls |-> 0, sent |-> <<>>]

Init ==
    /\ initial_context = None
    /\ paragraphs = EmptyDict
    /\ advices = [i \in Ids |-> EmptyDict]
    /\ chat_history = [i \in Ids |-> EmptyDict]
    /\ last = Idle
    /\ chat_id = EmptyDict
    /\ page = [c \in Clients |-> NoPage]

\* The caller serialises its calls, one at a time.
Accepting == last.op = "idle" /\ ExtraTurns(chat_history) < MaxTurns

\* The handler runs to its end: the engine takes the state it left, and the
\* call, the engine before it and its outcome wait for the caller.
Record(op, args, out) ==
    /\ initial_context' = out.st.initial_context
    /\ paragraphs' = out.st.paragraphs
    /\ advices' = out.st.advices
    /\ chat_history' = out.st.chat_history
    /\ last' = [op |-> op, args |-> args, pre |-> Engine, kind |-> out.kind,
                ret |-> out.ret, calls |-> out.calls, sent |-> out.sent]

\* A call made on the engine directly, not through the web application.
Apply(op, args, out) ==
    /\ Record(op, args, out)
    /\ UNCHANGED <<chat_id, page>>

AddInitialContext ==
    /\ Accepting
    /\ \E context \in Contexts :
        Apply("add_initial_context", [context |-> context],
              add_initial_context(Engine, context))

AddParagraph ==
    /\ Accepting
    /\ \E id \in Ids, text \in Texts, run \in StructuredRuns :
        Apply("add_paragraph", [id |-> id, text |-> text, run |-> run],
              add_paragraph(Engine, id, text, run))

UpdateParagraph ==
    /\ Accepting
    /\ \E id \in Ids, text \in Texts, run \in StructuredRuns :
        Apply("update_paragraph", [id |-> id, text |-> text, run |-> run],
              update_paragraph(Engine, id, text, run))

\* paragraph_reply without a reply
ViewThread ==
    /\ Accepting
    /\ \E id \in Ids, key \in AdviceStrings :
        Apply("paragraph_reply",
              [id |-> id, key |-> key, reply |-> None, response |-> Raises],
              paragraph_reply(Engine, id, key, None, Raises))

\* paragraph_reply with a reply
ParagraphReply ==
    /\ Accepting
    /\ \E id \in Ids, key \in AdviceStrings, reply \in Replies,
          response \in ReplyResponses :
        Apply("paragraph_reply",
              [id |-> id, key |-> key, reply |-> reply, response |-> response],
              paragraph_reply(Engine, id, key, reply, response))

EnhanceParagraph ==
    /\ Accepting
    /\ \E call \in EnhanceCalls :
        Apply("enhance_paragraph", call,
              enhance_paragraph(Engine, call.id, call.ids, call.run))

ScoreParagraph ==
    /\ Accepting
    /\ \E id \in Ids, text \in Texts, run \in ScoreRuns :
        Apply("score_paragraph", [id |-> id, text |-> text, run |-> run],
              score_paragraph(Engine, id, text, run))

\* The caller takes the outcome of its call.
Return ==
    /\ last.op # "idle"
    /\ last' = Idle
    /\ UNCHANGED <<initial_context, paragraphs, advices, chat_history, chat_id, page>>

Next ==
    \/ AddInitialContext
    \/ AddParagraph
    \/ UpdateParagraph
    \/ ViewThread
    \/ ParagraphReply
    \/ EnhanceParagraph
    \/ ScoreParagraph
    \/ Return

Spec == Init /\ [][Next]_vars

\* ---------------------------------------- the engine under any JSON answer
\* One paragraph, no chat: the collaborator answers a structured call with
\* any of the documents of JsonDoc, after at most one answer that does not
\* parse.
DocResponses == {Raises} \cup {Returns(t) : t \in AllStructuredTexts}
DocRuns == {run \in RunsOver(DocResponses) : Len(run) <= 2}
DocIds == {"q1"}

AddParagraphDoc ==
    /\ Accepting
    /\ \E id \in DocIds, text \in Texts, run \in DocRuns :
        Apply("add_paragraph", [id |-> id, text |-> text, run |-> run],
              add_paragraph(Engine, id, text, run))

UpdateParagraphDoc ==
    /\ Accepting
    /\ \E id \in DocIds, text \in Texts, run \in DocRuns :
        Apply("update_paragraph", [id |-> id, text |-> text, run |-> run],
              update_paragraph(Engine, id, text, run))

NextDocs ==
    \/ AddInitialContext
    \/ AddParagraphDoc
    \/ UpdateParagraphDoc
    \/ Return

SpecDocs == Init /\ [][NextDocs]_vars

\* ------------------------------------------------ clean_outputs on its own
\* Response texts of at most MaxCleanLen characters over whitespace, the
\* backtick, the letters of the language tag and one other letter, and the
\* fenced documents.
MaxCleanLen == 5
CleanAlphabet == Whitespace \cup {Backtick, "j", "s", "o", "n", "x"}
CleanTexts ==
    UNION {[1..n -> CleanAlphabet] : n \in 0..MaxCleanLen}
    \cup {Fenced(d) : d \in DOMAIN JsonDoc}

\* A call of the module-level function clean_outputs(response_text).
clean_outputs_call(st, response_text) ==
    Outcome(st, "ok", [t |-> "text", v |-> clean_outputs(response_text)], 0, <<>>)

CleanOutputs ==
    /\ Accepting
    /\ \E response_text \in CleanTexts :
        Apply("clean_outputs", [response_text |-> response_text],
              clean_outputs_call(Engine, response_text))

NextClean ==
    \/ CleanOutputs
    \/ Return

SpecClean == Init /\ [][NextClean]_vars

\* ------------------------------------------------ markdown_diff on its own
\* Word sequences of at most MaxWords words, as original.split() and
\* updated.split() yield them.
MaxWords == 3
DiffWords == {"w1", "w2", "w3"}
DiffTexts == UNION {[1..n -> DiffWords] : n \in 0..MaxWords}

\* Faulty variant of markdown_diff_call: the updated text is kept in the
\* engine as a paragraph.
MarkdownDiffKeepsText(st, original, updated) ==
    Outcome([st EXCEPT !.paragraphs = DictSet(@, "diff", updated)], "ok",
            [t |-> "text", v |-> JoinPieces(markdown_diff(original, updated))],
            0, <<>>)

\* A call of the module-level function markdown_diff(original, updated): it
\* has no access to the engine.
markdown_diff_call(st, original, updated) ==
    Outcome(st, "ok",
            [t |-> "text", v |-> JoinPieces(markdown_diff(original, updated))],
            0, <<>>)

MarkdownDiff ==
    /\ Accepting
    /\ \E original \in DiffTexts, updated \in DiffTexts :
        Apply("markdown_diff", [original |-> original, updated |-> updated],
              markdown_diff_call(Engine, original, updated))

NextDiff ==
    \/ AddInitialContext
    \/ MarkdownDiff
    \/ Return

SpecDiff == Init /\ [][NextDiff]_vars

\* ------------------------------------------------------ the web application
\* app.py holds one engine (agent) and one chat_id for every client; each
\* route runs its handler to the end on a request of either client.

\* len(text.split()) < 10
MinWords == 10

\* The question ids, answers and collaborator runs of the requests; an
\* answer is empty, blank, too short, or long enough.
WebIds == {"q1"}
LongText(w) == [i \in 1..MinWords |-> w]
WebTexts == {<<>>, <<" ">>, <<"w1", "w2">>, LongText("w1"), LongText("w2")}
WebRuns == {run \in StructuredRuns : Len(run) = 1}
Messages == {"", "u1"}

\* text.split()
Words(text) == SelectSeq(text, LAMBDA c : c \notin Whitespace)

\* The outcome of a route: the outcome of its handler on the engine and the
\* global chat_id it leaves.
WebOutcome(out, cid) ==
    [st |-> out.st, kind |-> out.kind, ret |-> out.ret, calls |-> out.calls,
     sent |-> out.sent, chat_id |-> cid]

\* POST /generate_feedback: the context of the request is set on the shared
\* engine first; an answer of ten words or more is added to it under the
\* question id and the advice strings and extracts of the answer are
\* returned.
generate_feedback(st, cid, question_id, text, context, run) ==
    LET ctx == add_initial_context(st, context).st
        added == add_paragraph(ctx, question_id, text, run)
    IN  IF question_id = None \/ Strip(text) = <<>>
        THEN WebOutcome(Outcome(ctx, "ok", [t |-> "text", v |-> <<"longer answer">>],
                                0, <<>>), cid)
        ELSE IF Len(Words(text)) < MinWords
        THEN WebOutcome(Outcome(ctx, "ok", [t |-> "text", v |-> <<"elaborate">>],
                                0, <<>>), cid)
        ELSE IF added.kind # "ok" THEN WebOutcome(added, cid)
        ELSE WebOutcome(
                 [added EXCEPT !.ret =
                     [t |-> "feedback",
                      v |-> [i \in 1..Len(added.ret.v.items) |->
                                <<added.ret.v.items[i].advice,
                                  added.ret.v.items[i].extract>>]]],
                 cid)

\* POST /set_chat_id: the global chat_id is assigned, then the thread is
\* fetched for display.
set_chat_id(st, cid, question_id, feedback_text) ==
    WebOutcome(paragraph_reply(st, question_id, feedback_text, None, Raises),
               [question_id |-> question_id, feedback_text |-> feedback_text])

\* POST /chat: a message that is not empty is sent as a reply on the thread
\* the global chat_id names.
chat(st, cid, message, response) ==
    IF message = ""
    THEN WebOutcome(Outcome(st, "ok", [t |-> "text", v |-> <<"enter a message">>],
                            0, <<>>), cid)
    ELSE IF "question_id" \notin DOMAIN cid
    THEN WebOutcome(Outcome(st, "KeyError", NoRet, 0, <<>>), cid)
    ELSE WebOutcome(paragraph_reply(st, cid.question_id, cid.feedback_text,
                                    message, response), cid)

\* A request of a client has been served; its page keeps the feedback it
\* has selected and the answers the engine has accepted from it.
Serve(op, args, out, client_page) ==
    /\ Record(op, args, out)
    /\ chat_id' = out.chat_id
    /\ page' = [page EXCEPT ![args.client] = client_page]

GenerateFeedback ==
    /\ Accepting
    /\ \E client \in Clients, question_id \in WebIds \cup {None}, text \in WebTexts,
          context \in Contexts, run \in WebRuns :
        LET out == generate_feedback(Engine, chat_id, question_id, text, context, run)
        IN  Serve("generate_feedback",
                  [client |-> client, id |-> question_id, text |-> text,
                   context |-> context, run |-> run],
                  out,
                  IF out.kind = "ok" /\ out.calls > 0
                  THEN [page[client] EXCEPT !.answers = DictSet(@, question_id, text)]
                  ELSE page[client])

SetChatId ==
    /\ Accepting
    /\ \E client \in Clients, question_id \in WebIds, feedback_text \in AdviceStrings :
        Serve("set_chat_id",
              [client |-> client, id |-> question_id, key |-> feedback_text],
              set_chat_id(Engine, chat_id, question_id, feedback_text),
              [page[client] EXCEPT !.selected =
                  [question_id |-> question_id, feedback_text |-> feedback_text]])

Chat ==
    /\ Accepting
    /\ \E client \in Clients, message \in Messages, response \in ReplyResponses :
        Serve("chat",
              [client |-> client, message |-> message, response |-> response],
              chat(Engine, chat_id, message, response),
              page[client])

NextWeb ==
    \/ GenerateFeedback
    \/ SetChatId
    \/ Chat
    \/ Return

SpecWeb == Init /\ [][NextWeb]_vars

\* ------------------------------------------------------------------ claims
\* The formulas below read the call that has just ended (last), the engine
\* before it (last.pre) and the engine after it (the variables).

IsCall(op) == last.op = op
\* The value json.loads gives for the answer to the last invocation made.
LastParsed == json_loads(clean_outputs(Strip(last.args.run[last.calls].text)))
\* Both values returned are the same value.
SameRet(r1, r2) == r1.t = r2.t /\ r1.v = r2.v
\* A call of paragraph_reply for a stored id and an advice string of that id.
ReplyCallFound ==
    /\ IsCall("paragraph_reply")
    /\ last.args.id \in DOMAIN last.pre.paragraphs
    /\ last.args.key \in DOMAIN last.pre.advices[last.args.id]
\* The thread of the call before the call, an unopened one being its seed.
ThreadBefore ==
    IF last.args.key \in DOMAIN last.pre.chat_history[last.args.id]
    THEN last.pre.chat_history[last.args.id][last.args.key]
    ELSE SeedThread(last.pre, last.args.id, last.args.key)

\* C1: when add_paragraph(id, text) returns normally and the parsed answer is
\* a list L of {extract, advice} items, paragraphs[id] is text, every advice
\* string of L is a key of advices[id], and the value returned is L, items in
\* the collaborator's order, duplicates included.
C1_AddStoresTextAndAdvice ==
    (IsCall("add_paragraph") /\ last.kind = "ok" /\ LastParsed.value.t = "list") =>
        /\ paragraphs[last.args.id] = last.args.text
        /\ \A i \in 1..Len(LastParsed.value.items) :
              LastParsed.value.items[i].advice \in DOMAIN advices[last.args.id]
        /\ last.ret.t = "json"
        /\ last.ret.v.items = LastParsed.value.items

C1_Witness ==
    /\ IsCall("add_paragraph")
    /\ last.kind = "ok"
    /\ last.ret.v.items = ListTwo
    /\ last.calls = 2

\* C2: add_paragraph called while initial_context is None or the empty string
\* ends in the precondition error, without any collaborator invocation and
\* with paragraphs, advices and chat_history as they were.
C2_AddNeedsContext ==
    (IsCall("add_paragraph") /\ last.pre.initial_context \in {None, ""}) =>
        /\ last.kind = "AssertionError"
        /\ last.calls = 0
        /\ Engine = last.pre

C2_Witness ==
    /\ IsCall("add_paragraph")
    /\ last.pre.initial_context = ""
    /\ last.pre.paragraphs # EmptyDict
    /\ last.kind = "AssertionError"

\* C3: update_paragraph(id, text) on an id that is not stored ends as
\* add_paragraph(id, text) does from the same engine with the same
\* collaborator answers: same outcome, same returned value, same invocations,
\* same engine afterwards.
C3_UpdateOfNewIdIsAdd ==
    (IsCall("update_paragraph") /\ last.args.id \notin DOMAIN last.pre.paragraphs) =>
        LET added == add_paragraph(last.pre, last.args.id, last.args.text, last.args.run)
        IN  /\ last.kind = added.kind
            /\ last.calls = added.calls
            /\ Engine = added.st
            /\ SameRet(last.ret, added.ret)
            /\ last.sent = added.sent

C3_Witness ==
    /\ IsCall("update_paragraph")
    /\ last.args.id \notin DOMAIN last.pre.paragraphs
    /\ last.kind = "ok"
    /\ advices[last.args.id] # EmptyDict

\* C4: a successful update_paragraph(id, text) on a stored id sets
\* paragraphs[id] to text and leaves advices[id] as it was, whatever list the
\* collaborator returned.
C4_UpdateKeepsAdvice ==
    (/\ IsCall("update_paragraph")
     /\ last.args.id \in DOMAIN last.pre.paragraphs
     /\ last.kind = "ok") =>
        /\ paragraphs[last.args.id] = last.args.text
        /\ advices = last.pre.advices

C4_Witness ==
    /\ IsCall("update_paragraph")
    /\ last.args.id \in DOMAIN last.pre.paragraphs
    /\ last.kind = "ok"
    /\ last.args.text # last.pre.paragraphs[last.args.id]
    /\ last.ret.v.items = ListTwo
    /\ "a2" \notin DOMAIN advices[last.args.id]

\* C5: update_paragraph on a stored id while initial_context is None or the
\* empty string is rejected before any collaborator invocation.
C5_UpdateNeedsContext ==
    (/\ IsCall("update_paragraph")
     /\ last.args.id \in DOMAIN last.pre.paragraphs
     /\ last.pre.initial_context \in {None, ""}) =>
        /\ last.kind \in {"AssertionError", "TypeError"}
        /\ last.calls = 0

\* C6: one add_paragraph or update_paragraph call invokes the collaborator at
\* most 3 times, every time with the same message list, and when no answer
\* parses it raises after the third attempt.
C6_AtMostThreeInvocations ==
    (IsCall("add_paragraph") \/ IsCall("update_paragraph")) =>
        /\ last.calls <= 3
        /\ \A i, j \in 1..last.calls : last.sent[i] = last.sent[j]
        /\ last.kind = "DecodeError" => last.calls = 3

\* C7: when the collaborator raises at no invocation and every answer the
\* parse loop tries fails to parse, add_paragraph and update_paragraph end in
\* the decoding error, never in a normal return, and paragraphs, advices and
\* chat_history are what they were before the call.
AllAttemptsUnparseable ==
    /\ last.calls = Len(last.args.run)
    /\ last.calls >= Retries
    /\ \A i \in 1..Len(last.args.run) : ~last.args.run[i].fail
    /\ \A i \in 1..Retries : Unparseable(last.args.run[i])

C7_DecodeFailureChangesNothing ==
    ((IsCall("add_paragraph") \/ IsCall("update_paragraph"))
        /\ AllAttemptsUnparseable) =>
        /\ last.kind = "DecodeError"
        /\ last.ret = NoRet
        /\ Engine = last.pre

C7_Witness ==
    /\ IsCall("update_paragraph")
    /\ last.args.id \in DOMAIN last.pre.paragraphs
    /\ AllAttemptsUnparseable
    /\ last.kind = "DecodeError"

\* C8: plain completion never retries: paragraph_reply with a reply, for a
\* stored id and a known advice string, invokes the collaborator exactly
\* once, and an enhance_paragraph that returns has invoked it exactly once
\* per id enhanced, whatever text came back.
C8_PlainCallsNeverRetry ==
    /\ (ReplyCallFound /\ last.args.reply # None) => last.calls = 1
    /\ (IsCall("enhance_paragraph") /\ last.kind = "ok") =>
          last.calls = (IF last.args.id # None THEN 1 ELSE Len(last.args.ids))

C8_Witness ==
    /\ IsCall("enhance_paragraph")
    /\ last.kind = "ok"
    /\ last.args.id # None
    /\ last.ret.v = <<"x">>

\* C9: paragraph_reply without a reply, for a stored id and a known advice
\* string, invokes the collaborator zero times, leaves chat_history,
\* paragraphs and advices as they were, and a second such call returns the
\* same turns as the first.
C9_ViewIsReadOnly ==
    (ReplyCallFound /\ last.args.reply = None) =>
        /\ last.kind = "ok"
        /\ last.calls = 0
        /\ Engine = last.pre
        /\ SameRet(paragraph_reply(Engine, last.args.id, last.args.key, None, Raises).ret,
                   last.ret)

C9_Witness ==
    /\ ReplyCallFound
    /\ last.args.reply = None
    /\ last.args.key \in DOMAIN chat_history[last.args.id]
    /\ Len(last.ret.v) = 3

\* C10: a paragraph_reply with a reply that returns normally leaves the
\* thread of (id, advice) exactly two turns longer than it was, an unopened
\* thread counting as its three seed turns: the user's reply, then the
\* collaborator's answer with role assistant; the first such call on a
\* thread leaves 5 turns.
C10_ReplyAppendsTwoTurns ==
    (ReplyCallFound /\ last.args.reply # None /\ last.kind = "ok") =>
        /\ last.args.key \in DOMAIN chat_history[last.args.id]
        /\ chat_history[last.args.id][last.args.key] =
              ThreadBefore \o <<Msg("user", <<last.args.reply>>),
                                Msg("assistant", Strip(last.args.response.text))>>
        /\ last.args.key \notin DOMAIN last.pre.chat_history[last.args.id] =>
              Len(chat_history[last.args.id][last.args.key]) = 5

C10_Witness ==
    /\ ReplyCallFound
    /\ last.args.reply # None
    /\ last.kind = "ok"
    /\ Len(chat_history[last.args.id][last.args.key]) = 7

\* C11: paragraph_reply for an id that is not stored, or for an advice string
\* that is not a key of advices[id], ends in a lookup error (ValueError for
\* the id, KeyError for the advice string) without any collaborator
\* invocation and with chat_history, and the rest of the engine, as it was.
C11_ReplyUnknownIsNotFound ==
    (IsCall("paragraph_reply") /\ ~ReplyCallFound) =>
        /\ last.kind =
              (IF last.args.id \notin DOMAIN last.pre.paragraphs
               THEN "NotFound" ELSE "KeyError")
        /\ last.calls = 0
        /\ last.ret = NoRet
        /\ chat_history = last.pre.chat_history
        /\ Engine = last.pre

C11_Witness ==
    /\ IsCall("paragraph_reply")
    /\ last.args.id \in DOMAIN last.pre.paragraphs
    /\ last.pre.advices[last.args.id] # EmptyDict
    /\ last.args.key \notin DOMAIN last.pre.advices[last.args.id]
    /\ last.args.reply # None
    /\ last.pre.chat_history[last.args.id] # EmptyDict
    /\ last.kind = "KeyError"

\* C12: the list paragraph_reply returns, with or without a reply, is the
\* thread without its first two turns: its first turn has role Assistant and
\* the advice string as content, every later turn has the content of its
\* turn in the thread with role user renamed You and assistant renamed
\* Assistant, in thread order.
ThreadShown ==
    IF last.args.reply = None THEN ThreadBefore
    ELSE chat_history[last.args.id][last.args.key]
Relabel(role) ==
    IF role = "assistant" THEN "Assistant" ELSE IF role = "user" THEN "You" ELSE role

EnhanceBothOrNeither ==
    /\ IsCall("enhance_paragraph")
    /\ (last.args.id # None) <=> (last.args.ids # NoList)

C13_EnhanceNeedsOneForm ==
    EnhanceBothOrNeither =>
        /\ last.kind = "InvalidArgument"
        /\ last.calls = 0
        /\ last.ret = NoRet
        /\ Engine = last.pre

C13_Witness ==
    /\ EnhanceBothOrNeither
    /\ last.args.id = None
    /\ DOMAIN last.pre.paragraphs = Ids
    /\ last.kind = "InvalidArgument"

\* C14: enhance_paragraph(paragraph_ids=L) with an id of L that is not stored
\* ends in the not-found error without any collaborator invocation, whatever
\* the place of the missing id in L.
C14_EnhanceValidatesFirst ==
    (/\ IsCall("enhance_paragraph")
     /\ last.args.id = None
     /\ last.args.ids # NoList
     /\ \E i \in 1..Len(last.args.ids) :
            last.args.ids[i] \notin DOMAIN last.pre.paragraphs) =>
        /\ last.kind = "NotFound"
        /\ last.calls = 0

\* C15: enhance_paragraph(paragraph_ids=L) with every id of L stored, the
\* collaborator answering every time, returns a list as long as L whose i-th
\* text is the answer to the request built from paragraphs[L[i]]; the
\* single-id form returns one text; in both forms, and however the call
\* ends, paragraphs, advices and chat_history are as they were.
EnhanceListCall ==
    /\ IsCall("enhance_paragraph")
    /\ last.args.id = None
    /\ last.args.ids # NoList
    /\ \A i \in 1..Len(last.args.ids) :
          /\ last.args.ids[i] \in DOMAIN last.pre.paragraphs
          /\ ~last.args.run[i].fail
EnhanceOneCall ==
    /\ IsCall("enhance_paragraph")
    /\ last.args.id # None
    /\ last.args.ids = NoList
    /\ last.args.id \in DOMAIN last.pre.paragraphs
    /\ ~last.args.run[1].fail

C15_EnhanceReturnsAlignedTexts ==
    /\ EnhanceListCall =>
          /\ last.kind = "ok"
          /\ last.ret.t = "texts"
          /\ Len(last.ret.v) = Len(last.args.ids)
          /\ last.calls = Len(last.args.ids)
          /\ \A i \in 1..Len(last.args.ids) :
                /\ last.sent[i] =
                      <<Msg("system", <<"enhance">>),
                        Msg("user", last.pre.paragraphs[last.args.ids[i]])>>
                /\ last.ret.v[i] = Strip(last.args.run[i].text)
    /\ EnhanceOneCall =>
          /\ last.kind = "ok"
          /\ last.ret.t = "text"
          /\ last.ret.v = Strip(last.args.run[1].text)
          /\ last.sent =
                << <<Msg("system", <<"enhance">>),
                     Msg("user", last.pre.paragraphs[last.args.id])>> >>
    /\ IsCall("enhance_paragraph") => Engine = last.pre

C15_Witness ==
    /\ EnhanceListCall
    /\ last.args.ids = <<"q2", "q1">>
    /\ last.pre.paragraphs["q1"] # last.pre.paragraphs["q2"]
    /\ last.ret.v = << <<"x">>, <<"y">> >>

\* C16: score_paragraph invokes the collaborator at most 3 times, a normal
\* return gives the number of the first answer that parses as one, and when
\* the collaborator raises at no invocation and no answer parses the call
\* ends in the decoding error.
FirstNumber(run) ==
    LET nums == {i \in 1..Len(run) : ~run[i].fail /\ ~NotNumber(run[i])}
    IN  IF nums = {} THEN 0 ELSE CHOOSE i \in nums : \A j \in nums : i <= j

C16_ScoreAtMostThreeInvocations ==
    (IsCall("score_paragraph") /\ last.pre.initial_context # None) =>
        /\ last.calls <= 3
        /\ last.kind = "ok" =>
              /\ FirstNumber(last.args.run) > 0
              /\ last.ret.t = "float"
              /\ last.ret.v =
                    float_parse(Strip(last.args.run[FirstNumber(last.args.run)].text)).value
        /\ (\A i \in 1..Len(last.args.run) : NotNumber(last.args.run[i])) =>
              last.kind = "DecodeError"

\* C17: when an invocation of the collaborator raises during an operation,
\* at the first attempt or at a retry, that invocation is the last one the
\* operation makes and the operation ends in the collaborator's error; for
\* add_paragraph and update_paragraph, paragraphs and advices are what they
\* were before the call.
AnswersOfLast ==
    IF IsCall("paragraph_reply") THEN <<last.args.response>> ELSE last.args.run
\* The invocations of the call at which the collaborator raised.
RaisedAt ==
    IF IsCall("idle") \/ IsCall("add_initial_context") THEN {}
    ELSE {i \in 1..last.calls : i <= Len(AnswersOfLast) /\ AnswersOfLast[i].fail}

C17_InvocationFailurePropagates ==
    RaisedAt # {} =>
        /\ last.calls = SetMin(RaisedAt)
        /\ last.kind = "InvocationError"
        /\ last.ret = NoRet
        /\ (IsCall("add_paragraph") \/ IsCall("update_paragraph")) =>
              /\ paragraphs = last.pre.paragraphs
              /\ advices = last.pre.advices

C17_Witness ==
    /\ IsCall("update_paragraph")
    /\ last.args.id \in DOMAIN last.pre.paragraphs
    /\ last.args.text # last.pre.paragraphs[last.args.id]
    /\ RaisedAt = {2}
    /\ last.kind = "InvocationError"

\* C18: a call of add_paragraph, update_paragraph, paragraph_reply,
\* enhance_paragraph or score_paragraph, however it ends, leaves the text,
\* the advice dict and the threads of every id it is not addressed to as
\* they were, and leaves the threads of the ids it is addressed to as they
\* were but for the thread of the advice string of a paragraph_reply.
Range(seq) == {seq[i] : i \in 1..Len(seq)}
Addressed ==
    IF IsCall("enhance_paragraph")
    THEN (IF last.args.id # None THEN {last.args.id} ELSE {})
         \cup (IF last.args.ids # NoList THEN Range(last.args.ids) ELSE {})
    ELSE {last.args.id}
SameEntry(d1, d2, k) ==
    /\ k \in DOMAIN d1 <=> k \in DOMAIN d2
    /\ k \in DOMAIN d1 => d1[k] = d2[k]

C18_OtherIdsUntouched ==
    (~IsCall("idle") /\ ~IsCall("add_initial_context")) =>
        /\ \A y \in Ids \ Addressed :
              /\ SameEntry(paragraphs, last.pre.paragraphs, y)
              /\ advices[y] = last.pre.advices[y]
              /\ chat_history[y] = last.pre.chat_history[y]
        /\ \A x \in Addressed \cap Ids :
              \A k \in AdviceStrings :
                  (IsCall("paragraph_reply") /\ k = last.args.key)
                  \/ SameEntry(chat_history[x], last.pre.chat_history[x], k)

C18_Witness ==
    /\ IsCall("paragraph_reply")
    /\ last.kind = "ok"
    /\ last.args.reply # None
    /\ last.args.id = "q1"
    /\ last.pre.chat_history["q2"] # EmptyDict
    /\ chat_history["q1"] # last.pre.chat_history["q1"]

\* C19: add_initial_context(text) sets initial_context to text and leaves
\* paragraphs, advices and chat_history as they were; a second call with the
\* same text leaves the engine as the first call left it.
C19_ContextSetIsIdempotent ==
    IsCall("add_initial_context") =>
        /\ last.kind = "ok"
        /\ last.calls = 0
        /\ initial_context = last.args.context
        /\ Engine = [last.pre EXCEPT !.initial_context = last.args.context]
        /\ add_initial_context(Engine, last.args.context).st = Engine

C19_Witness ==
    /\ IsCall("add_initial_context")
    /\ last.pre.initial_context = "ctx"
    /\ last.args.context = ""
    /\ initial_context = ""
    /\ last.pre.chat_history["q1"] # EmptyDict

\* C20: when the answer add_paragraph or update_paragraph parses is a mapping
\* of one key, the value returned is the list under that key, not the
\* mapping.
ParsedSingleKeyMapping ==
    /\ IsCall("add_paragraph") \/ IsCall("update_paragraph")
    /\ last.kind = "ok"
    /\ LastParsed.value.t = "dict"
    /\ Len(LastParsed.value.items) = 1

C20_SingleKeyMappingUnwrapped ==
    ParsedSingleKeyMapping =>
        /\ last.ret.t = "json"
        /\ last.ret.v = JList(LastParsed.value.items[1].value)

\* C21: clean_outputs is idempotent: cleaning the text it returned gives
\* that text again.
C21_CleanIsIdempotent ==
    IsCall("clean_outputs") => clean_outputs(last.ret.v) = last.ret.v

\* C22: markdown_diff(A, A) is the words of A with one space between
\* neighbours and no marker, the empty text for the empty A.
C22_DiffOfEqualTexts ==
    (IsCall("markdown_diff") /\ last.args.original = last.args.updated) =>
        LET A == last.args.original
        IN  /\ Len(last.ret.v) = (IF A = <<>> THEN 0 ELSE 2 * Len(A) - 1)
            /\ \A i \in 1..Len(A) : last.ret.v[2 * i - 1] = A[i]
            /\ \A i \in 1..(Len(A) - 1) : last.ret.v[2 * i] = " "

C22_Witness ==
    /\ IsCall("markdown_diff")
    /\ last.args.original = <<"w2", "w1", "w2">>
    /\ last.args.updated = last.args.original
    /\ Len(last.ret.v) = 5

\* C23: in markdown_diff(A, B) the words outside bold markers, in output
\* order, are A, and the words outside strikethrough markers, in output
\* order, are B.
RECURSIVE WordsOutside(_, _, _)
WordsOutside(text, marker, inside) ==
    IF text = <<>> THEN <<>>
    ELSE LET c == Head(text)
         IN  IF c \in {"~~", "**"}
             THEN WordsOutside(Tail(text), marker, IF inside = c THEN "" ELSE c)
             ELSE IF c = " " \/ inside = marker
             THEN WordsOutside(Tail(text), marker, inside)
             ELSE <<c>> \o WordsOutside(Tail(text), marker, inside)

C23_DiffKeepsBothTexts ==
    IsCall("markdown_diff") =>
        /\ WordsOutside(last.ret.v, "**", "") = last.args.original
        /\ WordsOutside(last.ret.v, "~~", "") = last.args.updated

C23_Witness ==
    /\ IsCall("markdown_diff")
    /\ last.args.original = <<"w1", "w2", "w3">>
    /\ last.args.updated = <<"w2", "w1">>
    /\ \E i, j, k \in 1..Len(last.ret.v) :
          /\ last.ret.v[i] = "~~"
          /\ last.ret.v[j] = "**"
          /\ k > 1 /\ last.ret.v[k] \in DiffWords /\ last.ret.v[k - 1] = " "
          /\ k < Len(last.ret.v) /\ last.ret.v[k + 1] = " "

\* C24: markdown_diff returns for a pair of texts what it returns for that
\* pair from the engine as constructed and from the engine as it is after
\* the call, and it leaves the engine as it was.
EngineAtInit ==
    [initial_context |-> None, paragraphs |-> EmptyDict,
     advices |-> [i \in Ids |-> EmptyDict],
     chat_history |-> [i \in Ids |-> EmptyDict]]

ThreadShapeOk(thread) ==
    /\ Len(thread) >= 5
    /\ (Len(thread) - 3) % 2 = 0
    /\ thread[1].role = "system"
    /\ thread[2].role = "user"
    /\ thread[3].role = "assistant"
    /\ \A i \in 4..Len(thread) :
          thread[i].role = (IF i % 2 = 0 THEN "user" ELSE "assistant")

C25_ThreadsAlternate ==
    \A k \in ThreadKeys(chat_history) : ThreadShapeOk(chat_history[k[1]][k[2]])

\* C26: when the collaborator raises inside paragraph_reply(id, advice,
\* reply), the thread of (id, advice) is what it was before the call:
\* unopened if it was unopened, the same turns if it was open.
C26_FailedReplyKeepsThread ==
    (ReplyCallFound /\ last.args.reply # None /\ last.kind = "InvocationError") =>
        SameEntry(chat_history[last.args.id], last.pre.chat_history[last.args.id],
                  last.args.key)

\* C27: a thread that was unopened before a call and is open after it was
\* opened by a paragraph_reply with a reply, for that id and advice string,
\* that returned normally; a thread that was open before a call is open
\* after it and still starts with the turns it had.
IsPrefix(s1, s2) == Len(s1) <= Len(s2) /\ SubSeq(s2, 1, Len(s1)) = s1

C27_ThreadOpensOnlyByReply ==
    ~IsCall("idle") =>
        \A id \in Ids, key \in AdviceStrings :
            /\ (key \in DOMAIN chat_history[id]
                    /\ key \notin DOMAIN last.pre.chat_history[id]) =>
                  /\ IsCall("paragraph_reply")
                  /\ last.args.id = id /\ last.args.key = key
                  /\ last.args.reply # None
                  /\ last.kind = "ok"
            /\ key \in DOMAIN last.pre.chat_history[id] =>
                  /\ key \in DOMAIN chat_history[id]
                  /\ IsPrefix(last.pre.chat_history[id][key], chat_history[id][key])

C27_Witness ==
    /\ IsCall("update_paragraph")
    /\ last.kind = "ok"
    /\ last.args.id \in DOMAIN last.pre.paragraphs
    /\ last.args.text # last.pre.paragraphs[last.args.id]
    /\ "a1" \in DOMAIN last.pre.chat_history[last.args.id]
    /\ "a1" \in DOMAIN chat_history[last.args.id]

\* C28: the text stored for an id differs after a call from what it was
\* before only if the call is an add_paragraph or update_paragraph for that
\* id that returned normally, and an id that was stored stays stored.
C28_TextChangesOnlyOnSuccess ==
    ~IsCall("idle") =>
        \A id \in Ids :
            /\ ~SameEntry(paragraphs, last.pre.paragraphs, id) =>
                  /\ IsCall("add_paragraph") \/ IsCall("update_paragraph")
                  /\ last.args.id = id
                  /\ last.kind = "ok"
            /\ id \in DOMAIN last.pre.paragraphs => id \in DOMAIN paragraphs

\* C29: after an add_paragraph that returns a list, every advice string of
\* the list is a key of advices[id] whose extract is that of the last item
\* of the list with that string, and the keys added are at most the
\* distinct advice strings of the list.
LastItemWith(items, advice) ==
    items[SetMax({i \in 1..Len(items) : items[i].advice = advice})]

C29_DuplicateAdviceLastWins ==
    (IsCall("add_paragraph") /\ last.kind = "ok") =>
        LET items == last.ret.v.items
            strings == {items[i].advice : i \in 1..Len(items)}
        IN  /\ \A a \in strings :
                  /\ a \in DOMAIN advices[last.args.id]
                  /\ advices[last.args.id][a] = LastItemWith(items, a).extract
            /\ DOMAIN advices[last.args.id] =
                  DOMAIN last.pre.advices[last.args.id] \cup strings
            /\ Cardinality(DOMAIN advices[last.args.id]
                               \ DOMAIN last.pre.advices[last.args.id])
                  <= Cardinality(strings)

C29_Witness ==
    /\ IsCall("add_paragraph")
    /\ last.kind = "ok"
    /\ last.ret.v.items = ListDup
    /\ last.pre.advices[last.args.id] = EmptyDict
    /\ advices[last.args.id] = DictSet(EmptyDict, "a1", "e2")

\* C30: every advice string of the list a successful add_paragraph or
\* update_paragraph returns for an id is accepted as the advice of a
\* paragraph_reply for that id right after the call.
C30_ReturnedAdviceIsKey ==
    ((IsCall("add_paragraph") \/ IsCall("update_paragraph"))
        /\ last.kind = "ok" /\ last.ret.v.t = "list") =>
        \A i \in 1..Len(last.ret.v.items) :
            paragraph_reply(Engine, last.args.id, last.ret.v.items[i].advice,
                            None, Raises).kind = "ok"

\* C31: no call removes a key of advices[id]: the keys before a call are
\* keys after it; an add_paragraph on an id that is already stored keeps the
\* extract of every key its answer does not name, and update_paragraph on a
\* stored id leaves the dict as it was.
C31_AdviceKeysOnlyGrow ==
    ~IsCall("idle") =>
        /\ \A id \in Ids : DOMAIN last.pre.advices[id] \subseteq DOMAIN advices[id]
        /\ (IsCall("add_paragraph") /\ last.kind = "ok") =>
              \A a \in DOMAIN last.pre.advices[last.args.id] :
                  (\A i \in 1..Len(last.ret.v.items) : last.ret.v.items[i].advice # a)
                      => advices[last.args.id][a] = last.pre.advices[last.args.id][a]
        /\ (IsCall("update_paragraph")
                /\ last.args.id \in DOMAIN last.pre.paragraphs) =>
              advices[last.args.id] = last.pre.advices[last.args.id]

C31_Witness ==
    /\ IsCall("add_paragraph")
    /\ last.kind = "ok"
    /\ last.args.id \in DOMAIN last.pre.paragraphs
    /\ "a2" \in DOMAIN last.pre.advices[last.args.id]
    /\ last.ret.v.items = ListDup
    /\ DOMAIN advices[last.args.id] = {"a1", "a2"}

\* C32: in every state the advice string of every persisted thread of an id
\* is a key of advices[id], and every id whose advice dict is not empty is
\* stored in paragraphs.
C32_ThreadKeysAreAdviceKeys ==
    /\ \A k \in ThreadKeys(chat_history) : k[2] \in DOMAIN advices[k[1]]
    /\ \A id \in Ids : advices[id] # EmptyDict => id \in DOMAIN paragraphs

C32_Witness ==
    /\ IsCall("update_paragraph")
    /\ last.kind = "ok"
    /\ last.ret.v.items = ListDup
    /\ "a2" \in DOMAIN chat_history[last.args.id]
    /\ "a2" \in DOMAIN advices[last.args.id]

\* C33: in every state the second turn of every persisted thread of (id,
\* advice) is the text stored for id and its third turn restates the
\* extract stored for that advice.
C33_ThreadFollowsParagraph ==
    \A k \in ThreadKeys(chat_history) :
        LET thread == chat_history[k[1]][k[2]]
        IN  /\ k[1] \in DOMAIN paragraphs
            /\ k[2] \in DOMAIN advices[k[1]]
            /\ thread[2].content = paragraphs[k[1]]
            /\ thread[3].content = SeedThread(Engine, k[1], k[2])[3].content

\* C34: an add_paragraph call that ends in an error because the parsed
\* value is not a list of items with 'advice' and 'extract' leaves the
\* stored texts and the advice dicts as they were before the call.
C34_AddIsAllOrNothing ==
    (IsCall("add_paragraph") /\ last.kind \in {"TypeError", "KeyError"}) =>
        /\ paragraphs = last.pre.paragraphs
        /\ advices = last.pre.advices

\* The answers of the call that were fetched and not raised.
Fetched == {i \in 1..last.calls : i <= Len(last.args.run) /\ ~last.args.run[i].fail}

\* C35: add_paragraph and update_paragraph end in the decode failure only
\* when every answer they fetched is not parseable as JSON, and
\* score_paragraph ends without a score only when every answer it fetched
\* is not a number.
C35_EveryResponseIsParsed ==
    /\ ((IsCall("add_paragraph") \/ IsCall("update_paragraph"))
           /\ last.kind = "DecodeError") =>
          \A i \in Fetched : Unparseable(last.args.run[i])
    /\ (IsCall("score_paragraph") /\ last.kind \in {"DecodeError", "UnboundLocalError"}) =>
          \A i \in Fetched : NotNumber(last.args.run[i])

\* C36: every persisted thread has roles system, user and assistant only
\* and a third turn that restates the extract before the advice string,
\* never the bare advice string; a paragraph_reply that returns a display
\* copy leaves the first three turns of the thread as they were.
C36_DisplayLeavesThread ==
    /\ \A k \in ThreadKeys(chat_history) :
          LET thread == chat_history[k[1]][k[2]]
          IN  /\ \A i \in 1..Len(thread) :
                    thread[i].role \in {"system", "user", "assistant"}
              /\ thread[3].content # <<k[2]>>
              /\ Len(thread[3].content) = 4
              /\ thread[3].content[2] \in {"e1", "e2"}
              /\ thread[3].content[4] = k[2]
    /\ (ReplyCallFound /\ last.kind = "ok"
           /\ last.args.key \in DOMAIN chat_history[last.args.id]) =>
          SubSeq(chat_history[last.args.id][last.args.key], 1, 3) =
              SubSeq(ThreadBefore, 1, 3)

C36_Witness ==
    /\ ReplyCallFound
    /\ last.kind = "ok"
    /\ last.args.reply # None
    /\ Len(chat_history[last.args.id][last.args.key]) = 7
    /\ last.ret.v[1] = Msg("Assistant", <<last.args.key>>)
    /\ chat_history[last.args.id][last.args.key][3].content[4] = last.args.key

\* C37: add_paragraph does not accept a parsed mapping of two or more
\* keys: the call does not return normally with one of the mapping's
\* values in place of the mapping.
C37_MultiKeyMappingNotUnwrapped ==
    (IsCall("add_paragraph")
        /\ last.calls \in 1..Len(last.args.run)
        /\ ~last.args.run[last.calls].fail
        /\ LastParsed.ok
        /\ LastParsed.value.t = "dict"
        /\ Len(LastParsed.value.items) >= 2) =>
        last.kind # "ok"

\* The length of a longest common subsequence of two word lists.
RECURSIVE LCS(_, _)
LCS(a, b) ==
    IF a = <<>> \/ b = <<>> THEN 0
    ELSE IF Head(a) = Head(b) THEN 1 + LCS(Tail(a), Tail(b))
    ELSE LET left == LCS(Tail(a), b)
             right == LCS(a, Tail(b))
         IN  IF left >= right THEN left ELSE right

\* The number of words of a rendered diff that stand between strikethrough
\* or bold markers.
RECURSIVE MarkedWords(_, _)
MarkedWords(text, inside) ==
    IF text = <<>> THEN 0
    ELSE LET c == Head(text)
         IN  IF c \in {"~~", "**"}
             THEN MarkedWords(Tail(text), IF inside = c THEN "" ELSE c)
             ELSE IF c = " " \/ inside = ""
             THEN MarkedWords(Tail(text), inside)
             ELSE 1 + MarkedWords(Tail(text), inside)

\* C38: the number of words markdown_diff(A, B) marks as deleted or
\* inserted is |A| + |B| - 2 * LCS(A, B), the size of a minimal edit script.
C38_DiffIsMinimal ==
    IsCall("markdown_diff") =>
        MarkedWords(last.ret.v, "") =
            Len(last.args.original) + Len(last.args.updated)
                - 2 * LCS(last.args.original, last.args.updated)

\* The page of the client whose request has just been served.
PageOfLast == page[last.args.client]

\* C39: with two clients, a /chat message that is answered is appended,
\* with its answer, to the thread the same client selected last through
\* /set_chat_id, and the text the engine holds under a question id is the
\* answer every client that got feedback for that id sent last.
C39_ClientsAreIsolated ==
    /\ (IsCall("chat") /\ last.args.message # "" /\ last.kind = "ok") =>
          /\ "question_id" \in DOMAIN PageOfLast.selected
          /\ PageOfLast.selected = chat_id
          /\ LET id == PageOfLast.selected.question_id
                 key == PageOfLast.selected.feedback_text
                 before == IF key \in DOMAIN last.pre.chat_history[id]
                           THEN last.pre.chat_history[id][key]
                           ELSE SeedThread(last.pre, id, key)
             IN  /\ key \in DOMAIN chat_history[id]
                 /\ chat_history[id][key] =
                        before \o <<Msg("user", <<last.args.message>>),
                                    Msg("assistant", Strip(last.args.response.text))>>
    /\ \A c \in Clients : \A id \in DOMAIN page[c].answers :
          /\ id \in DOMAIN paragraphs
          /\ paragraphs[id] = page[c].answers[id]

====
